---- MODULE Spec2Model ----
(***************************************************************************)
(* A model of src/nodes.py: the node classes of the LivePortrait plugin.   *)
(*                                                                         *)
(*   Spec      DownloadAndLoadLivePortraitModels.loadmodel and             *)
(*             LivePortraitProcess.process on the pipeline it returns      *)
(*   SpecAlign the Sequence Aligner consumed through pipeline.execute      *)
(*   SpecCrop  LivePortraitCropper.process on one node                     *)
(*   SpecKeypoints  KeypointsToImage.drawkeypoints and                     *)
(*             KeypointScaler.process on one CROPINFO object               *)
(*                                                                         *)
(* liveportrait/live_portrait_pipeline.py and liveportrait/utils/cropper.py *)
(* are imported by nodes.py (lines 15-16) but are not part of src/: what   *)
(* pipeline.execute and Cropper.crop_single_image do is taken from spec.md *)
(* (sections 4.1, 4.3, 4.5).                                               *)
(***************************************************************************)
EXTENDS Integers, Sequences, FiniteSets, TLC

VARIABLES
    \* ---- DownloadAndLoadLivePortraitModels / LivePortraitProcess
    pipeline,      \* "none" before loadmodel returned one, else "loaded"
    dtype,         \* the local dtype of loadmodel, while it is the latest call
    cfg,           \* pipeline.live_portrait_wrapper.cfg (an InferenceConfig)
    pc,            \* position inside LivePortraitProcess.process
    args,          \* the arguments of the current process invocation
    events,        \* what the current invocation did so far, in order
    lists,         \* what pipeline.execute returned to process
    out,           \* the tuple process returned
    \* ---- Sequence Aligner
    al,
    \* ---- LivePortraitCropper / KeypointsToImage / KeypointScaler
    node,          \* the LivePortraitCropper instance: cropper, current_config
    call,          \* the running LivePortraitCropper.process call
    kp             \* the last KeypointsToImage / KeypointScaler call

vars == <<pipeline, dtype, cfg, pc, args, events, lists, out, al, node, call, kp>>

procVars == <<pipeline, dtype, cfg, pc, args, events, lists, out>>
cropVars == <<node, call, kp>>

\* ------------------------------------------------------------------ bounds
MaxFrames == 2        \* source_image.shape[0], driving_images.shape[0] <= MaxFrames
MaxAlignFrames == 3   \* source_count, driving_count given to the aligner
MaxRequired == 7      \* output steps asked of the aligner
MaxCropFrames == 2    \* frames given to LivePortraitCropper.process
MaxCalls == 3         \* LivePortraitCropper.process calls on one node
MaxScalerCalls == 2   \* KeypointScaler.process calls on one CROPINFO object

Max(a, b) == IF a >= b THEN a ELSE b
Min(a, b) == IF a <= b THEN a ELSE b

RECURSIVE SumSeq(_)
SumSeq(s) == IF s = <<>> THEN 0 ELSE Head(s) + SumSeq(Tail(s))

\* ------------------------------------------------------------ InferenceConfig
\* Floats are kept in thousandths (0.03 is 30, 1.0 is 1000).  A multiplier of 0
\* stands for "attribute not set": __init__ does not create the two multiplier
\* attributes, process adds them.
NoMask == [kind |-> "None", id |-> "None", channels |-> 0]

InferenceConfig(half) ==
    [ mask_crop                   |-> NoMask,
      flag_use_half_precision     |-> half,
      flag_lip_zero               |-> TRUE,
      lip_zero_threshold          |-> 30,
      flag_eye_retargeting        |-> FALSE,
      flag_lip_retargeting        |-> FALSE,
      flag_stitching              |-> TRUE,
      flag_relative               |-> TRUE,
      flag_pasteback              |-> TRUE,
      flag_do_crop                |-> TRUE,
      flag_do_rot                 |-> TRUE,
      eyes_retargeting_multiplier |-> 0,
      lip_retargeting_multiplier  |-> 0 ]

\* --------------------------------------- DownloadAndLoadLivePortraitModels
Precisions == {"fp16", "fp32", "auto"}

\* The device answers loadmodel asks for: is_device_mps, should_use_fp16, and
\* whether the host is too old to answer at all (the except branch).
Devices == [mps : BOOLEAN, fp16 : BOOLEAN, old : BOOLEAN]

ResolveDtype(precision, dev) ==
    IF precision = "auto"
    THEN IF dev.old THEN "AttributeError"
         ELSE IF dev.mps THEN "fp32"
         ELSE IF dev.fp16 THEN "fp16"
         ELSE "fp32"
    ELSE precision

HalfPrecisionFlag(precision, dev) == precision = "fp16"

Idle == pc \in {"idle", "returned", "raised"}

NoArgs == [source_count |-> 0, driving_count |-> 0, lip_zero |-> FALSE,
           lip_zero_threshold |-> 0, eye_retargeting |-> FALSE,
           lip_retargeting |-> FALSE, stitching |-> FALSE, relative |-> FALSE,
           eyes_retargeting_multiplier |-> 0, lip_retargeting_multiplier |-> 0,
           mismatch_method |-> "constant", mask |-> "None"]
NoLists == [cropped_out_list |-> <<>>, full_out_list |-> <<>>, out_mask_list |-> <<>>]
NoOut == [cropped_images |-> 0, full_images |-> 0, mask |-> 0]

loadmodel(precision, dev) ==
    /\ Idle
    /\ dtype' = ResolveDtype(precision, dev)
    /\ IF dtype' = "AttributeError"
       THEN UNCHANGED <<pipeline, cfg>>
       ELSE /\ pipeline' = "loaded"
            /\ cfg' = InferenceConfig(HalfPrecisionFlag(precision, dev))
    /\ pc' = "idle"
    /\ args' = NoArgs /\ events' = <<>> /\ lists' = NoLists /\ out' = NoOut
    /\ UNCHANGED <<al, node, call, kp>>

\* ------------------------------------------------------- Sequence Aligner
\* spec.md 4.3.  A cursor over the driving sequence: idx is the driving index of
\* the current output step, dir the direction the mirror method moves in.
MismatchMethods == {"constant", "cycle", "mirror", "cut"}

AlignStart == [idx |-> 0, dir |-> 1]

AlignAdvanceWrapLate(method, cur, driving_count) ==
    IF method = "cycle"
    THEN [cur EXCEPT !.idx = IF cur.idx = driving_count THEN 0 ELSE cur.idx + 1]
    ELSE [cur EXCEPT !.idx = Min(cur.idx + 1, driving_count - 1)]

AlignAdvance(method, cur, driving_count) ==
    CASE method = "constant" ->
            [cur EXCEPT !.idx = Min(cur.idx + 1, driving_count - 1)]
      [] method = "cycle" ->
            [cur EXCEPT !.idx = IF cur.idx + 1 = driving_count THEN 0 ELSE cur.idx + 1]
      [] method = "mirror" ->
            IF driving_count = 1 THEN cur
            ELSE IF cur.idx + cur.dir > driving_count - 1
                 THEN [idx |-> cur.idx - 1, dir |-> -1]
            ELSE IF cur.idx + cur.dir < 0
                 THEN [idx |-> cur.idx + 1, dir |-> 1]
            ELSE [cur EXCEPT !.idx = cur.idx + cur.dir]
      [] method = "cut" ->
            [cur EXCEPT !.idx = cur.idx + 1]

\* The number of output steps for `required` steps asked of the aligner.
AlignLength(required, driving_count, method) ==
    IF method = "cut" THEN Min(required, driving_count) ELSE required

\* "output length = max(source_count, driving_count)"
OutputLength(source_count, driving_count, method) ==
    AlignLength(Max(source_count, driving_count), driving_count, method)

RECURSIVE IndexMapFrom(_, _, _, _)
IndexMapFrom(method, driving_count, steps, cur) ==
    IF steps = 0 THEN <<>>
    ELSE <<cur.idx>> \o IndexMapFrom(method, driving_count, steps - 1,
                                     AlignAdvance(method, cur, driving_count))

IndexMap(source_count, driving_count, method) ==
    IndexMapFrom(method, driving_count,
                 OutputLength(source_count, driving_count, method), AlignStart)

NoAlign == [state |-> "idle", source_count |-> 0, driving_count |-> 0,
            method |-> "constant", required |-> 0, cur |-> AlignStart,
            index_map |-> <<>>]

\* align(source_count, driving_count, method) asked for `required` output steps
\* (the end-to-end scenarios of spec.md 8 name the required length apart from
\* the two counts).
align(source_count, driving_count, method, required) ==
    /\ al.state \in {"idle", "done", "LengthError"}
    /\ al' = [state |-> IF driving_count < source_count THEN "LengthError"
                        ELSE "running",
              source_count |-> source_count, driving_count |-> driving_count,
              method |-> method, required |-> required, cur |-> AlignStart,
              index_map |-> <<>>]
    /\ UNCHANGED <<procVars, cropVars>>

AlignStep ==
    /\ al.state = "running"
    /\ Len(al.index_map) < AlignLength(al.required, al.driving_count, al.method)
    /\ al' = [al EXCEPT !.index_map = Append(@, al.cur.idx),
                        !.cur = AlignAdvance(al.method, al.cur, al.driving_count)]
    /\ UNCHANGED <<procVars, cropVars>>

AlignDone ==
    /\ al.state = "running"
    /\ Len(al.index_map) = AlignLength(al.required, al.driving_count, al.method)
    /\ al' = [al EXCEPT !.state = "done"]
    /\ UNCHANGED <<procVars, cropVars>>

\* ------------------------------------------------------ LivePortraitProcess
\* The values the host offers for the settings that are copied into cfg without
\* being looked at (lines 300-310), and for the optional mask.
HostSettings ==
    { [stitching |-> TRUE, relative |-> TRUE, lip_zero_threshold |-> 30,
       eyes_retargeting_multiplier |-> 1000, lip_retargeting_multiplier |-> 1000,
       mask |-> "None"],
      [stitching |-> TRUE, relative |-> TRUE, lip_zero_threshold |-> 30,
       eyes_retargeting_multiplier |-> 1000, lip_retargeting_multiplier |-> 1000,
       mask |-> "m1"],
      [stitching |-> FALSE, relative |-> FALSE, lip_zero_threshold |-> 100,
       eyes_retargeting_multiplier |-> 2000, lip_retargeting_multiplier |-> 500,
       mask |-> "None"] }

ProcessArgs ==
    { [source_count |-> s, driving_count |-> d, lip_zero |-> lz,
       lip_zero_threshold |-> o.lip_zero_threshold, eye_retargeting |-> er,
       lip_retargeting |-> lr, stitching |-> o.stitching, relative |-> o.relative,
       eyes_retargeting_multiplier |-> o.eyes_retargeting_multiplier,
       lip_retargeting_multiplier |-> o.lip_retargeting_multiplier,
       mismatch_method |-> m, mask |-> o.mask] :
      s \in 1..MaxFrames, d \in 1..MaxFrames, lz \in BOOLEAN, er \in BOOLEAN,
      lr \in BOOLEAN, o \in HostSettings, m \in MismatchMethods }

Event(kind, what) == [kind |-> kind, what |-> what]

NextPcMaskAfterExecute(p) ==
    CASE p = "check"   -> "cfg"
      [] p = "cfg"     -> "warn"
      [] p = "warn"    -> "upscale"
      [] p = "upscale" -> "execute"
      [] p = "execute" -> "mask"
      [] p = "mask"    -> "stack"
      [] p = "stack"   -> "return"
      [] p = "return"  -> "returned"

\* The statement blocks of process in source order; pc names the next one.
NextPc(p) ==
    CASE p = "check"   -> "cfg"        \* 295-297
      [] p = "cfg"     -> "warn"       \* 299-310
      [] p = "warn"    -> "mask"       \* 312-313
      [] p = "mask"    -> "upscale"    \* 315-322
      [] p = "upscale" -> "execute"    \* 324-326
      [] p = "execute" -> "stack"      \* 331-336
      [] p = "stack"   -> "return"     \* 338-348
      [] p = "return"  -> "returned"   \* 351-355

\* line 295
LengthErrorOnEqual(a) == a.driving_count <= a.source_count
LengthError(a) == a.driving_count < a.source_count

\* lines 278-297: the call and the length check.  The first event of an
\* invocation notes the mask_crop the pipeline came with.
ProcessCall(a) ==
    /\ Idle /\ pipeline = "loaded"
    /\ args' = a
    /\ dtype' = "none"
    /\ lists' = NoLists /\ out' = NoOut
    /\ IF LengthError(a)
       THEN /\ pc' = "raised"
            /\ events' = <<Event("call", cfg.mask_crop.kind),
                           Event("raise", "ValueError")>>
       ELSE /\ pc' = NextPc("check")
            /\ events' = <<Event("call", cfg.mask_crop.kind)>>
    /\ UNCHANGED <<pipeline, cfg, al, node, call, kp>>

\* lines 299-310
CfgWrites(c, a) ==
    [c EXCEPT !.flag_eye_retargeting = a.eye_retargeting,
              !.eyes_retargeting_multiplier = a.eyes_retargeting_multiplier,
              !.flag_lip_retargeting = a.lip_retargeting,
              !.lip_retargeting_multiplier = a.lip_retargeting_multiplier,
              !.flag_stitching = a.stitching,
              !.flag_relative = a.relative,
              !.flag_lip_zero = a.lip_zero,
              !.lip_zero_threshold = a.lip_zero_threshold]

CfgWriteEvents ==
    << Event("write", "flag_eye_retargeting"),
       Event("write", "eyes_retargeting_multiplier"),
       Event("write", "flag_lip_retargeting"),
       Event("write", "lip_retargeting_multiplier"),
       Event("write", "flag_stitching"),
       Event("write", "flag_relative"),
       Event("write", "flag_lip_zero"),
       Event("write", "lip_zero_threshold") >>

ProcessCfg ==
    /\ pc = "cfg"
    /\ cfg' = CfgWrites(cfg, args)
    /\ events' = events \o CfgWriteEvents
    /\ pc' = NextPc("cfg")
    /\ UNCHANGED <<pipeline, dtype, args, lists, out, al, node, call, kp>>

\* line 312
LipZeroWarning(a) == a.lip_zero /\ (a.lip_retargeting \/ a.eye_retargeting)

\* lines 312-313
ProcessWarn ==
    /\ pc = "warn"
    /\ events' = IF LipZeroWarning(args)
                 THEN Append(events, Event("warning", "lip_zero"))
                 ELSE events
    /\ pc' = NextPc("warn")
    /\ UNCHANGED <<pipeline, dtype, cfg, args, lists, out, al, node, call, kp>>

\* lines 315-322: mask[0] scaled to bytes and repeated to 3 channels, or the
\* template file read as a colour image.
MaskCrop(mask) ==
    IF mask # "None"
    THEN [kind |-> "explicit", id |-> mask, channels |-> 3]
    ELSE [kind |-> "template", id |-> "mask_template.png", channels |-> 3]

ProcessMaskOnlyExplicit ==
    /\ pc = "mask"
    /\ cfg' = IF args.mask # "None"
              THEN [cfg EXCEPT !.mask_crop = MaskCrop(args.mask)]
              ELSE cfg
    /\ events' = IF args.mask # "None"
                 THEN Append(events, Event("write", "mask_crop"))
                 ELSE Append(events, Event("info", "Using default mask template"))
    /\ pc' = NextPc("mask")
    /\ UNCHANGED <<pipeline, dtype, args, lists, out, al, node, call, kp>>

ProcessMask ==
    /\ pc = "mask"
    /\ cfg' = [cfg EXCEPT !.mask_crop = MaskCrop(args.mask)]
    /\ events' = IF args.mask # "None"
                 THEN Append(events, Event("write", "mask_crop"))
                 ELSE events \o <<Event("info", "Using default mask template"),
                                  Event("write", "mask_crop")>>
    /\ pc' = NextPc("mask")
    /\ UNCHANGED <<pipeline, dtype, args, lists, out, al, node, call, kp>>

\* lines 324-326
ProcessUpscale ==
    /\ pc = "upscale"
    /\ events' = Append(events, Event("upscale",
                        IF cfg.flag_use_half_precision THEN "float16" ELSE "float32"))
    /\ pc' = NextPc("upscale")
    /\ UNCHANGED <<pipeline, dtype, cfg, args, lists, out, al, node, call, kp>>

\* lines 331-336: the call of pipeline.execute.  spec.md 4.5: one triple per
\* output step of the aligner, in step order; cfg is only read.
ExecuteLists(a) ==
    LET m == IndexMap(a.source_count, a.driving_count, a.mismatch_method) IN
    [ cropped_out_list |-> [i \in 1..Len(m) |-> [batch |-> 1, driving |-> m[i]]],
      full_out_list    |-> [i \in 1..Len(m) |-> [driving |-> m[i]]],
      out_mask_list    |-> [i \in 1..Len(m) |-> [driving |-> m[i]]] ]

ProcessExecuteStart ==
    /\ pc = "execute"
    /\ events' = Append(events, Event("execute", args.mismatch_method))
    /\ pc' = "executing"
    /\ UNCHANGED <<pipeline, dtype, cfg, args, lists, out, al, node, call, kp>>

ProcessExecuteEnd ==
    /\ pc = "executing"
    /\ lists' = ExecuteLists(args)
    /\ events' = Append(events, Event("executed", args.mismatch_method))
    /\ pc' = NextPc("execute")
    /\ UNCHANGED <<pipeline, dtype, cfg, args, out, al, node, call, kp>>

\* torch.cat(list, dim=0): the entries of the tensors are laid end to end.
TorchCat(list) == SumSeq([i \in 1..Len(list) |-> list[i].batch])
\* torch.stack(list): one entry per tensor.
TorchStack(list) == Len(list)

MaskTensorsOutFirstOnly(l) == Min(TorchStack(l.out_mask_list), 1)

CroppedOutTensors(l) == TorchCat(l.cropped_out_list)     \* 338-339
FullTensorsOut(l)    == TorchStack(l.full_out_list)      \* 341-344
MaskTensorsOut(l)    == TorchStack(l.out_mask_list)      \* 346-348, [:, :, :, 0]

\* lines 338-348
ProcessStack ==
    /\ pc = "stack"
    /\ out' = [cropped_images |-> CroppedOutTensors(lists),
               full_images    |-> FullTensorsOut(lists),
               mask           |-> MaskTensorsOut(lists)]
    /\ pc' = NextPc("stack")
    /\ UNCHANGED <<pipeline, dtype, cfg, args, events, lists, al, node, call, kp>>

\* lines 351-355
ProcessReturn ==
    /\ pc = "return"
    /\ events' = Append(events, Event("return", "process"))
    /\ pc' = NextPc("return")
    /\ UNCHANGED <<pipeline, dtype, cfg, args, lists, out, al, node, call, kp>>

\* ------------------------------------------------------ LivePortraitCropper
\* node.cropper is "unset" while the instance has no attribute cropper, "None"
\* after a release and "Cropper" while one is held.  constructed counts the
\* Cropper(...) constructions, calls the process calls on the node.
NoConfig == [keep_model_loaded |-> FALSE, onnx_device |-> "unset"]
NoNode == [cropper |-> "unset", current_config |-> NoConfig, constructed |-> 0,
           calls |-> 0]
NoCall == [pc |-> "idle", n |-> 0, driving |-> 0, keep_model_loaded |-> FALSE,
           onnx_device |-> "unset", i |-> 0, crop_info_list |-> <<>>,
           cropped_images_list |-> <<>>, driving_landmark_list |-> <<>>,
           pbar |-> [total |-> 0, n |-> 0], built |-> FALSE, error |-> "none",
           keys |-> {}]

OnnxDevices == {"CPU", "CUDA"}

\* line 395
NeedsCropperIgnoringConfig(nd, config) ==
    nd.cropper = "unset" \/ nd.cropper = "None"
NeedsCropper(nd, config) ==
    nd.cropper = "unset" \/ nd.cropper = "None" \/ nd.current_config # config

\* lines 387-406.  driving = 0 stands for opt_driving_images = None.
CropperCall(n, driving, keep, dev) ==
    /\ call.pc \in {"idle", "returned", "raised"}
    /\ node.calls < MaxCalls
    /\ LET config == [keep_model_loaded |-> keep, onnx_device |-> dev]
           build == NeedsCropper(node, config)
       IN /\ node' = [cropper |-> IF build THEN "Cropper" ELSE node.cropper,
                      current_config |-> IF build THEN config ELSE node.current_config,
                      constructed |-> node.constructed + (IF build THEN 1 ELSE 0),
                      calls |-> node.calls + 1]
          /\ call' = [NoCall EXCEPT !.pc = "loop", !.n = n, !.driving = driving,
                                    !.keep_model_loaded = keep, !.onnx_device = dev,
                                    !.pbar = [total |-> n, n |-> 0],
                                    !.built = build]
    /\ UNCHANGED <<procVars, al, kp>>

\* Cropper.crop_single_image (spec.md 4.1): the crop of one frame.
CropSingleImage(images, i) ==
    [img_crop_256x256 |-> <<images, i>>, lmk_crop |-> <<images, i>>]

\* line 414
DrivingCropFromSource(i) == CropSingleImage("source", i)
DrivingCrop(i) == CropSingleImage("driving", i)

\* lines 407-417: one iteration of the loop.  srcFace, drvFace: whether a face
\* is found in the source and in the driving frame (NoFaceDetected otherwise).
CropperFrame(srcFace, drvFace) ==
    /\ call.pc = "loop" /\ call.i < call.n
    /\ IF ~srcFace
       THEN call' = [call EXCEPT !.pc = "raised", !.error = "NoFaceDetected"]
       ELSE LET crop_info == CropSingleImage("source", call.i)
                c1 == [call EXCEPT
                         !.crop_info_list = Append(@, crop_info),
                         !.cropped_images_list = Append(@, crop_info.img_crop_256x256)]
            IN IF call.driving = 0
               THEN call' = [c1 EXCEPT !.pbar.n = @ + 1, !.i = @ + 1]
               ELSE IF call.i >= call.driving
               THEN call' = [c1 EXCEPT !.pc = "raised", !.error = "IndexError"]
               ELSE IF ~drvFace
               THEN call' = [c1 EXCEPT !.pc = "raised", !.error = "NoFaceDetected"]
               ELSE call' = [c1 EXCEPT
                               !.driving_landmark_list =
                                   Append(@, DrivingCrop(call.i).lmk_crop),
                               !.pbar.n = @ + 1, !.i = @ + 1]
    /\ UNCHANGED <<procVars, al, node, kp>>

\* lines 419-421
ReleasedCropperWhenKept(keep, cropper) == IF keep THEN "None" ELSE cropper
ReleasedCropper(keep, cropper) == IF ~keep THEN "None" ELSE cropper

CropperRelease ==
    /\ call.pc = "loop" /\ call.i = call.n
    /\ node' = [node EXCEPT !.cropper = ReleasedCropper(call.keep_model_loaded, @)]
    /\ call' = [call EXCEPT !.pc = "stack"]
    /\ UNCHANGED <<procVars, al, kp>>

\* lines 424-436
CropperReturn ==
    /\ call.pc = "stack"
    /\ call' = [call EXCEPT !.pc = "returned",
                            !.keys = IF call.driving # 0
                                     THEN {"crop_info_list", "driving_landmark_list"}
                                     ELSE {"crop_info_list"}]
    /\ UNCHANGED <<procVars, al, node, kp>>

\* ----------------------------------------- KeypointsToImage, KeypointScaler
\* A CROPINFO dict: the keys it has, and the values under 'crop_info' and
\* 'crop_info_list'.  Landmarks are whole pixels.
NoCrop == [lmk_crop |-> <<>>, input_image_size |-> <<0, 0>>]
Landmarks == { << <<0, 0>>, <<2, 2>> >>, << <<1, 3>>, <<3, 1>> >> }
CropInfos ==
    { [keys |-> {"crop_info"},
       crop_info |-> [lmk_crop |-> l, input_image_size |-> <<4, 4>>],
       crop_info_list |-> <<>>] : l \in Landmarks }
    \cup
    { [keys |-> {"crop_info_list"}, crop_info |-> NoCrop,
       crop_info_list |-> <<[lmk_crop |-> l, input_image_size |-> <<4, 4>>]>>] :
      l \in Landmarks }
    \cup
    { [keys |-> {"crop_info", "crop_info_list"},
       crop_info |-> [lmk_crop |-> l, input_image_size |-> <<4, 4>>],
       crop_info_list |-> <<[lmk_crop |-> l, input_image_size |-> <<4, 4>>]>>] :
      l \in Landmarks }

NoKp == [fn |-> "none", obj |-> [keys |-> {}, crop_info |-> NoCrop,
                                 crop_info_list |-> <<>>],
         given |-> [keys |-> {}, crop_info |-> NoCrop, crop_info_list |-> <<>>],
         result |-> "none", images |-> <<>>, scaled |-> 0]

\* The host hands a CROPINFO object to the keypoint nodes.
HostCropInfo(ci) ==
    /\ kp' = [NoKp EXCEPT !.obj = ci, !.given = ci]
    /\ UNCHANGED <<procVars, al, node, call>>

\* lines 460-463, 514-517: the landmarks drawn on a width x height canvas
Drawn(keypoints, width, height) ==
    { keypoints[k] : k \in { j \in DOMAIN keypoints :
          /\ 0 <= keypoints[j][1] /\ keypoints[j][1] < width
          /\ 0 <= keypoints[j][2] /\ keypoints[j][2] < height } }

\* lines 452-473
drawkeypoints ==
    /\ kp.obj.keys # {}
    /\ IF "crop_info_list" \notin kp.obj.keys
       THEN kp' = [kp EXCEPT !.fn = "drawkeypoints", !.given = kp.obj,
                             !.result = "KeyError", !.images = <<>>]
       ELSE IF kp.obj.crop_info_list = <<>>
       THEN kp' = [kp EXCEPT !.fn = "drawkeypoints", !.given = kp.obj,
                             !.result = "IndexError", !.images = <<>>]
       ELSE LET list == kp.obj.crop_info_list
                height == list[1].input_image_size[1]
                width == list[1].input_image_size[2]
            IN kp' = [kp EXCEPT
                        !.fn = "drawkeypoints", !.given = kp.obj,
                        !.result = "returned",
                        !.images = [k \in DOMAIN list |->
                                       Drawn(list[k].lmk_crop, width, height)]]
    /\ UNCHANGED <<procVars, al, node, call>>

ScalerCanvas == 512

\* keypoints.mean(axis=0); exact for the landmark sets of CropInfos
Mean(keypoints) ==
    << SumSeq([k \in DOMAIN keypoints |-> keypoints[k][1]]) \div Len(keypoints),
       SumSeq([k \in DOMAIN keypoints |-> keypoints[k][2]]) \div Len(keypoints) >>

\* lines 498-507
FinalKeypoints(keypoints, offset_x, offset_y, scale) ==
    LET centroid == Mean(keypoints) IN
    [k \in DOMAIN keypoints |->
        << (keypoints[k][1] - centroid[1]) * scale + centroid[1] + offset_x,
           (keypoints[k][2] - centroid[2]) * scale + centroid[2] + offset_y >>]

Scales == {1, 2}
Offsets == {0, 1}

\* lines 492-523
KeypointScalerProcess(offset_x, offset_y, scale) ==
    /\ kp.obj.keys # {}
    /\ kp.scaled < MaxScalerCalls
    /\ IF "crop_info" \notin kp.obj.keys
       THEN kp' = [kp EXCEPT !.fn = "KeypointScaler", !.given = kp.obj,
                             !.result = "KeyError", !.images = <<>>,
                             !.scaled = @ + 1]
       ELSE LET final_keypoints ==
                    FinalKeypoints(kp.obj.crop_info.lmk_crop, offset_x, offset_y, scale)
            IN kp' = [kp EXCEPT
                        !.fn = "KeypointScaler", !.given = kp.obj,
                        !.obj.crop_info.lmk_crop = final_keypoints,
                        !.result = "returned",
                        !.images = <<Drawn(final_keypoints, ScalerCanvas, ScalerCanvas)>>,
                        !.scaled = @ + 1]
    /\ UNCHANGED <<procVars, al, node, call>>

Init ==
    /\ pipeline = "none" /\ dtype = "none" /\ cfg = InferenceConfig(TRUE)
    /\ pc = "idle" /\ args = NoArgs /\ events = <<>>
    /\ lists = NoLists /\ out = NoOut
    /\ al = NoAlign
    /\ node = NoNode /\ call = NoCall /\ kp = NoKp

Next ==
    \/ \E p \in Precisions, dev \in Devices : loadmodel(p, dev)
    \/ \E a \in ProcessArgs : ProcessCall(a)
    \/ ProcessCfg
    \/ ProcessWarn
    \/ ProcessMask
    \/ ProcessUpscale
    \/ ProcessExecuteStart
    \/ ProcessExecuteEnd
    \/ ProcessStack
    \/ ProcessReturn

Spec == Init /\ [][Next]_vars

NextAlign ==
    \/ \E s \in 1..MaxAlignFrames, d \in 1..MaxAlignFrames, m \in MismatchMethods,
          r \in 1..MaxRequired : align(s, d, m, r)
    \/ AlignStep
    \/ AlignDone

SpecAlign == Init /\ [][NextAlign]_vars

NextCrop ==
    \/ \E n \in 1..MaxCropFrames, driving \in 0..MaxCropFrames, keep \in BOOLEAN,
          dev \in OnnxDevices : CropperCall(n, driving, keep, dev)
    \/ \E srcFace \in BOOLEAN, drvFace \in BOOLEAN : CropperFrame(srcFace, drvFace)
    \/ CropperRelease
    \/ CropperReturn

SpecCrop == Init /\ [][NextCrop]_vars

NextKeypoints ==
    \/ \E ci \in CropInfos : HostCropInfo(ci)
    \/ drawkeypoints
    \/ \E ox \in Offsets, oy \in Offsets, sc \in Scales :
          KeypointScalerProcess(ox, oy, sc)

SpecKeypoints == Init /\ [][NextKeypoints]_vars

\* ----------------------------------------------------------------- claims
Kinds(k) == {i \in DOMAIN events : events[i].kind = k}
ExecStarted == Kinds("execute") # {}
Warned == Kinds("warning") # {}
PastWarn == pc \in {"mask", "upscale", "execute", "executing", "stack", "return",
                    "returned"}

\* C1: process raises the length error exactly when driving_count < source_count
\* (equal counts are accepted), and a raising invocation has written nothing to
\* the pipeline configuration, loaded no mask and not called pipeline.execute.
C1_LengthErrorBeforeAnyWork ==
    [][ /\ (Idle /\ pc' # "idle") =>
              ((pc' = "raised") <=> (args'.driving_count < args'.source_count))
        /\ (pc' = "raised") =>
              /\ args'.driving_count < args'.source_count
              /\ cfg' = cfg
              /\ events' = <<Event("call", cfg.mask_crop.kind),
                             Event("raise", "ValueError")>>
              /\ lists' = NoLists /\ out' = NoOut ]_vars

\* A failed invocation on a pipeline an earlier invocation has configured.
C1_Witness ==
    /\ pc = "raised" /\ args.driving_count < args.source_count
    /\ cfg.eyes_retargeting_multiplier = 2000 /\ cfg.mask_crop.kind = "template"

\* C2: every invocation that returns hands back cropped_images, full_images and
\* mask with the same number of entries, the aligner's output length for
\* (source_count, driving_count, mismatch_method).
C2_OutputsAligned ==
    pc = "returned" =>
        /\ out.cropped_images = out.full_images
        /\ out.full_images = out.mask
        /\ out.mask = OutputLength(args.source_count, args.driving_count,
                                   args.mismatch_method)

C2_Witness ==
    /\ pc = "returned" /\ args.mismatch_method = "cut"
    /\ args.source_count = 1 /\ args.driving_count = 2
    /\ out = [cropped_images |-> 2, full_images |-> 2, mask |-> 2]

\* C3: within one invocation every write to the shared configuration comes
\* before pipeline.execute starts, and from the start of pipeline.execute to the
\* return of process the configuration does not change.
C3_ConfigFixedDuringBatch ==
    /\ [](\A w \in Kinds("write") : \A e \in Kinds("execute") : w < e)
    /\ [][ (ExecStarted /\ ~Idle) => cfg' = cfg ]_vars

\* Mid-batch, with all nine fields written from the arguments.
C3_Witness ==
    /\ pc = "executing" /\ Cardinality(Kinds("write")) = 9
    /\ cfg.mask_crop.kind = "explicit" /\ cfg.flag_eye_retargeting

\* C4: the lip-zero warning is logged exactly when lip_zero is set and neither
\* eye_retargeting nor lip_retargeting is; execution continues either way.
C4_WarnIffLipZeroAlone ==
    PastWarn =>
        (Warned <=> (args.lip_zero /\ ~args.eye_retargeting /\ ~args.lip_retargeting))

\* C10: the half-precision flag given to InferenceConfig is true exactly when
\* the resolved dtype is fp16.
C10_HalfFlagMatchesDtype ==
    (pipeline = "loaded" /\ dtype \in {"fp16", "fp32"}) =>
        (cfg.flag_use_half_precision <=> (dtype = "fp16"))

\* C5: with method "cycle" the driving index wraps modulo driving_count: every
\* output step i >= driving_count has index_map[i] = i % driving_count, and
\* every index lies in 0..driving_count-1.  (Sequences count from 1: output
\* step i is index_map[i + 1].)
C5_CycleWrapsModulo ==
    al.method = "cycle" =>
        \A k \in DOMAIN al.index_map :
            /\ (k - 1 >= al.driving_count =>
                    al.index_map[k] = (k - 1) % al.driving_count)
            /\ al.index_map[k] \in 0..(al.driving_count - 1)

\* driving_count = 3 and required length 7
C5_Witness ==
    /\ al.state = "done" /\ al.method = "cycle" /\ al.source_count = 1
    /\ al.driving_count = 3 /\ al.index_map = <<0, 1, 2, 0, 1, 2, 0>>

CallStep == node'.calls = node.calls + 1

\* C6 as stated: over any sequence of LivePortraitCropper.process calls on one
\* node a Cropper is constructed on the first call and never again.
C6_ConstructedOnce == node.calls >= 1 => node.constructed = 1

\* C6 amended: a call constructs a Cropper exactly when the node holds none
\* (the first call, or after a release) or the call's (keep_model_loaded,
\* onnx_device) differs from the configuration the held Cropper was built with;
\* otherwise the held Cropper is reused.  Nothing else constructs one.
C6_ConstructedWhenNeeded ==
    /\ [](node.calls >= 1 => node.constructed >= 1)
    /\ [][ /\ CallStep =>
                LET config == [keep_model_loaded |-> call'.keep_model_loaded,
                               onnx_device |-> call'.onnx_device]
                    needed == \/ node.cropper \in {"unset", "None"}
                              \/ node.current_config # config
                IN /\ node'.constructed = node.constructed + (IF needed THEN 1 ELSE 0)
                   /\ call'.built = needed
                   /\ node'.cropper = "Cropper"
                   /\ node'.current_config = config
           /\ ~CallStep => node'.constructed = node.constructed ]_vars

\* Three calls, the Cropper of the first one reused by both later calls.
C6_Witness ==
    /\ node.calls = 3 /\ node.constructed = 1 /\ call.pc = "returned" /\ ~call.built

\* C7 as stated: no process call drops a loaded capability on its own.
C7_NeverDroppedByCall == [][node.cropper = "Cropper" => node'.cropper = "Cropper"]_vars

\* C7 amended: the release is an end-of-call action of process, chosen by the
\* caller through keep_model_loaded: a call that completes its frame loop with
\* keep_model_loaded false sets cropper to None before it returns, one with
\* keep_model_loaded true keeps the Cropper, and nothing else drops it.  The
\* release always finds a Cropper held (every call holds one after line 397).
C7_ReleasedAtEndOfCall ==
    /\ [](call.pc \in {"stack", "returned"} =>
            (node.cropper = "None" <=> ~call.keep_model_loaded))
    /\ [][ /\ (node.cropper # "None" /\ node'.cropper = "None") =>
                /\ call.pc = "loop" /\ call.i = call.n /\ call'.pc = "stack"
                /\ ~call.keep_model_loaded
           /\ (call.pc = "loop" /\ call'.pc = "stack") => node.cropper = "Cropper" ]_vars

C7_Witness ==
    /\ call.pc = "returned" /\ ~call.keep_model_loaded /\ node.cropper = "None"
    /\ node.constructed = 2

\* C8: no operation changes a field of the CropInfo object it was given; the
\* landmarks are the same before and after KeypointScaler.process.
C8_CropInfoUnchanged == kp.obj = kp.given

SourceOrder(list) ==
    \A k \in DOMAIN list : list[k] = CropSingleImage("source", k - 1)
DrivingOrder(list) ==
    \A k \in DOMAIN list : list[k] = CropSingleImage("driving", k - 1).lmk_crop

CropListsComplete ==
    call.pc = "returned" =>
        /\ Len(call.crop_info_list) = call.n /\ SourceOrder(call.crop_info_list)
        /\ call.pbar = [total |-> call.n, n |-> call.n]
        /\ "driving_landmark_list" \in call.keys <=> call.driving # 0
        /\ call.driving # 0 =>
              /\ Len(call.driving_landmark_list) = call.n
              /\ DrivingOrder(call.driving_landmark_list)

\* C9 as stated: ... and the call returns normally for every driving_count >= 1
\* however driving_count compares with n (the driving count never makes it fail).
C9_AnyDrivingCountReturns ==
    /\ CropListsComplete
    /\ (call.driving >= 1 /\ call.pc = "raised") => call.error = "NoFaceDetected"

\* C9 amended: a call that returns normally for n source frames holds n
\* crop_info entries in source order and advanced the progress sink n times of
\* a declared n; with driving images it holds n landmarks, the i-th from driving
\* frame i, and it returns only if driving_count >= n: with driving_count < n it
\* never gets past frame driving_count, where it raises IndexError after
\* driving_count advances (unless a crop failed before).
C9_ListsCompleteDrivingLongEnough ==
    /\ CropListsComplete
    /\ (call.pc = "returned" /\ call.driving # 0) => call.driving >= call.n
    /\ call.error = "IndexError" =>
          /\ call.pc = "raised" /\ 1 <= call.driving /\ call.driving < call.n
          /\ call.i = call.driving /\ call.pbar.n = call.driving
    /\ (call.driving # 0 /\ call.driving < call.n /\ call.pc = "loop")
          => call.i <= call.driving

\* A second call on the node, two source frames and two driving frames.
C9_Witness ==
    /\ call.pc = "returned" /\ call.n = 2 /\ call.driving = 2
    /\ Len(call.driving_landmark_list) = 2 /\ node.calls = 2

\* C11: over any sequence of process invocations on one pipeline, the
\* retargeting flags, the multipliers, lip_zero_threshold and mask_crop in effect
\* when pipeline.execute is called are those of the current invocation's
\* arguments; nothing an earlier invocation set is still in effect.
C11_ConfigFromCurrentArguments ==
    pc \in {"execute", "executing"} =>
        /\ cfg.flag_eye_retargeting = args.eye_retargeting
        /\ cfg.eyes_retargeting_multiplier = args.eyes_retargeting_multiplier
        /\ cfg.flag_lip_retargeting = args.lip_retargeting
        /\ cfg.lip_retargeting_multiplier = args.lip_retargeting_multiplier
        /\ cfg.flag_stitching = args.stitching
        /\ cfg.flag_relative = args.relative
        /\ cfg.flag_lip_zero = args.lip_zero
        /\ cfg.lip_zero_threshold = args.lip_zero_threshold
        /\ cfg.mask_crop.kind = (IF args.mask = "None" THEN "template" ELSE "explicit")
        /\ cfg.mask_crop.id = (IF args.mask = "None" THEN "mask_template.png"
                               ELSE args.mask)

\* pipeline.execute running for a call without a mask, on a pipeline that came
\* with the explicit mask of an earlier invocation.
C11_Witness ==
    /\ pc = "executing" /\ args.mask = "None"
    /\ events[1] = Event("call", "explicit")
    /\ cfg.mask_crop.kind = "template"

====
